---- MODULE Spec2Model ----
(***************************************************************************)
(* Model of the two scripts of the repository:                             *)
(*   src/trivia_game.py  OptimizedTriviaDownloader (adaptive fetch loop)   *)
(*   src/AI_reponse.py   MultiModelTriviaComparison (benchmark harness)    *)
(* Times are in tenths of a second.  Texts are sequences of tokens.        *)
(***************************************************************************)
EXTENDS Integers, Sequences, FiniteSets, TLC

VARIABLES
    \* ---- OptimizedTriviaDownloader ----
    remote,             \* which pool the trivia source serves from (environment)
    faults_left,        \* how many imperfect responses a "fresh" source still gives
    all_questions,      \* download_all_4620: the named results accumulated, in order
    unique_questions,   \* download_all_4620: the keys of the named results
    fresh,              \* number of accumulated results that were new when served
    seen_pairs,         \* history: (question, answer) pairs of processed results
    consecutive_empty,
    batch_number,       \* kept modulo MaintenanceCycle
    session_token,
    since_request,      \* time since self.last_request_time, NoTime before any request
    current_count,      \* local of the loop
    status,             \* local of the loop: the classification of the response
    slept,              \* history: time slept since the last batch response
    run_questions,      \* run(): the local `questions`, unbound until assigned
    csv_file,           \* what create_final_csv wrote
    request_log,        \* history: the HTTP requests sent since the loop test
    requested,          \* history: the amount parameter of the last batch request
    received,           \* history: the number of results of the last batch response
    dl_pc

dl_vars == <<remote, faults_left, all_questions, unique_questions, fresh, seen_pairs,
             consecutive_empty, batch_number, session_token, since_request,
             current_count, status, slept, run_questions,
             csv_file, request_log, requested, received,
             dl_pc>>

VARIABLES
    \* ---- MultiModelTriviaComparison ----
    df,                 \* the rows of the loaded CSV (input)
    max_questions,      \* the cap given to prepare_questions (input), NoCap for None
    rng,                \* the state of the module-level random generator
    prepared_questions, \* self.prepared_questions
    prepare_calls,      \* history: the calls of prepare_questions, see NoCalls
    prev_prepared,      \* history: what the previous prepare_questions returned
    models,             \* self.models: the names of the selected models
    max_workers,        \* the pool size of run_comparison, NoArg until resolved
    w_pc,               \* per model: where its worker is
    total_count,        \* per model: local of test_single_model_threaded
    correct_count,      \* per model: local of test_single_model_threaded
    results,            \* per model: local of test_single_model_threaded
    final_accuracy,     \* per model: the accuracy the worker returns, <<num, den>>
    progress_queue,     \* number of "COMPLETE" messages in the queue
    completed_models,   \* local of run_comparison, counted by progress_updater
    collected,          \* the futures as_completed has yielded so far
    model_summaries,
    all_detailed_results,
    all_results,        \* self.all_results: the models that have an entry
    saved,              \* what save_comparison_results wrote
    consistency,        \* what the cross-check of show_final_comparison printed
    requests_sent,      \* history, per model: the requests.post calls of ask_model
    pc

bm_vars == <<df, max_questions, rng, prepared_questions, prepare_calls, prev_prepared,
             models, max_workers, w_pc, total_count, correct_count, results,
             final_accuracy, progress_queue, completed_models, collected,
             model_summaries, all_detailed_results, all_results, saved,
             consistency, requests_sent, pc>>

VARIABLES
    \* ---- extract_letter_choice on its own ----
    test_cases,         \* the responses given to extract_letter_choice (input)
    extraction_result   \* what extract_letter_choice returned for each, in order

ex_vars == <<test_cases, extraction_result>>

vars == <<dl_vars, bm_vars, ex_vars>>

None == "None"
NoTime == -1

(***************************************************************************)
(* Program constants of OptimizedTriviaDownloader.                         *)
(***************************************************************************)
total_target == 4620
MAX_DANGER == 4520
FastBatch == 50
SlowBatch == 10
FastDelay == 52
SlowDelay == 80
EmptyTolerance == 15
FastPause == 300
SlowPause == 600
FastMaintenance == 100
SlowMaintenance == 50
MaintenanceCycle == 100

(***************************************************************************)
(* Bounds of the model.                                                    *)
(***************************************************************************)
MaxResults == 2       \* named results in one response
Latency == 7          \* the longest a request takes
SleptCap == 600       \* saturation of the slept history
MaxFaults == 3        \* imperfect responses of a "fresh" source in one run
NamedFaults == 16     \* imperfect responses of a "named" source in one run
SteadyFaults == 52    \* imperfect responses of a "steady" source in one run

Min(a, b) == IF a < b THEN a ELSE b
Max(a, b) == IF a > b THEN a ELSE b

get_adaptive_batch_size(count) == IF count < MAX_DANGER THEN FastBatch ELSE SlowBatch

\* the delay chosen without looking at the count
get_adaptive_delay_fast(count) == FastDelay

get_adaptive_delay(count) == IF count < MAX_DANGER THEN FastDelay ELSE SlowDelay

(***************************************************************************)
(* html.unescape and the duplicate key of download_all_4620.               *)
(***************************************************************************)
unescape_token(t) == IF t = "&#124;" THEN "|" ELSE IF t = "&amp;" THEN "&" ELSE t

html_unescape(text) == [i \in 1..Len(text) |-> unescape_token(text[i])]

unique_key(q) == html_unescape(q.question) \o <<"|">> \o html_unescape(q.correct_answer)

pair_of(q) == <<html_unescape(q.question), html_unescape(q.correct_answer)>>

\* Three results of the source: the first two are the same question with and
\* without an HTML entity, the third is another question with another answer.
NamedPool ==
    { [question |-> <<"x", "|", "y">>, correct_answer |-> <<"z">>],
      [question |-> <<"x", "&#124;", "y">>, correct_answer |-> <<"z">>],
      [question |-> <<"x">>, correct_answer |-> <<"y", "|", "z">>] }

RemoteKinds == {"named", "fresh"}

(***************************************************************************)
(* wait_for_rate_limit, time.sleep and one HTTP request, on the clock      *)
(* [since, slept], in tenths of a second.                                 *)
(***************************************************************************)
SinceCap == SlowDelay

\* gap and delay are those of the last wait_for_rate_limit; log is the list of
\* requests sent, each with its url, the time since the start of the request
\* before it (NoTime: there was none) and the delay that was in force
Clock == [since |-> since_request, slept |-> slept, gap |-> NoTime, delay |-> 0,
          log |-> <<>>]

time_sleep(ts, d) ==
    [ts EXCEPT !.since = IF ts.since = NoTime THEN NoTime ELSE Min(SinceCap, ts.since + d),
               !.slept = Min(SleptCap, ts.slept + d)]

wait_for_rate_limit(ts, count) ==
    LET adaptive_delay == get_adaptive_delay(count)
        wait_time == IF ts.since # NoTime /\ ts.since < adaptive_delay
                     THEN adaptive_delay - ts.since ELSE 0
    IN  [ts EXCEPT !.since = 0,
                   !.slept = Min(SleptCap, ts.slept + wait_time),
                   !.gap = IF ts.since = NoTime THEN NoTime ELSE ts.since + wait_time,
                   !.delay = adaptive_delay]

\* requests.get: the request to url takes Latency
http_request(ts, url) ==
    [ts EXCEPT !.since = Min(SinceCap, ts.since + Latency),
               !.log = Append(@, [url |-> url, gap |-> ts.gap, delay |-> ts.delay])]

(***************************************************************************)
(* The responses of the trivia source.  http = 0 stands for a transport    *)
(* exception.  A result list is its named results, the number of results   *)
(* never served before (nfresh) and the number of repeated ones (ndup).    *)
(***************************************************************************)
NoResults == [named |-> <<>>, nfresh |-> 0, ndup |-> 0]

ResultLen(r) == Len(r.named) + r.nfresh + r.ndup

NamedLists == UNION { [1..n -> NamedPool] : n \in 0..MaxResults }

FullBatch(amount) == [named |-> <<>>, nfresh |-> amount, ndup |-> 0]

\* A "named" source is a small pool that serves any of its questions again
\* and again; a "fresh" source always has questions never served before and
\* can answer a full batch of them.  In one run a source gives at most
\* faults_left answers that are neither a full batch of new questions nor a
\* token exhaustion the fetcher recovers from.
ResultLists(amount) ==
    IF remote = "named"
    THEN { [named |-> l, nfresh |-> 0, ndup |-> 0] : l \in NamedLists }
    ELSE { NoResults, FullBatch(amount) }
         \cup (IF fresh > 0
               THEN { [named |-> <<>>, nfresh |-> amount \div 2, ndup |-> amount - amount \div 2],
                      [named |-> <<>>, nfresh |-> 0, ndup |-> amount] }
               ELSE {})

TokenExhausted == [http |-> 200, response_code |-> 4, results |-> NoResults]

Failures ==
    { [http |-> h, response_code |-> 0, results |-> NoResults] : h \in {0, 429, 500} }
    \cup { [http |-> 200, response_code |-> c, results |-> NoResults] : c \in {1, 2, 5} }

IsFault(resp, amount) ==
    /\ resp # TokenExhausted
    /\ ~(remote # "named" /\ resp.http = 200 /\ resp.response_code = 0
                          /\ resp.results = FullBatch(amount))

\* A "steady" source is a "fresh" one whose only imperfect answer is
\* response_code 1 (no results); it can find the token exhausted until it has
\* given its first imperfect answer
SteadyResponses(amount) ==
    (IF faults_left = SteadyFaults THEN {TokenExhausted} ELSE {})
    \cup
    { [http |-> 200, response_code |-> 0, results |-> FullBatch(amount)],
      [http |-> 200, response_code |-> 1, results |-> NoResults] }

Responses(amount) ==
    { resp \in Failures \cup {TokenExhausted}
                \cup { [http |-> 200, response_code |-> 0, results |-> r] :
                         r \in ResultLists(amount) } :
        /\ IsFault(resp, amount) => faults_left > 0
        /\ remote = "steady" => resp \in SteadyResponses(amount) }

\* get_questions_batch, lines 92-111: the pair (questions, status)
classify(resp) ==
    IF resp.http = 0 THEN <<NoResults, "exception">>
    ELSE IF resp.http = 429 THEN <<NoResults, "rate_limit">>
    ELSE IF resp.http = 200 THEN
        IF resp.response_code = 0 THEN <<resp.results, "success">>
        ELSE IF resp.response_code = 1 THEN <<NoResults, "no_results">>
        ELSE IF resp.response_code = 4 THEN <<NoResults, "token_empty">>
        ELSE IF resp.response_code = 5 THEN <<NoResults, "rate_limit">>
        ELSE <<NoResults, "error_2">>
    ELSE <<NoResults, "http_500">>

\* lines 165-174 on the named results: <<all_questions, unique_questions, new_count>>
RECURSIVE merge_named(_, _, _, _, _)
merge_named(qs, i, aq, uq, new_count) ==
    IF i > Len(qs) THEN <<aq, uq, new_count>>
    ELSE IF unique_key(qs[i]) \notin uq
         THEN merge_named(qs, i + 1, Append(aq, qs[i]),
                          uq \cup {unique_key(qs[i])}, new_count + 1)
         ELSE merge_named(qs, i + 1, aq, uq, new_count)

LenAll == Len(all_questions) + fresh

\* the local `questions` of run() before its assignment, and no file
Unbound == [bound |-> FALSE, named |-> <<>>, fresh |-> 0]

NotWritten == [written |-> FALSE, named |-> <<>>, fresh |-> 0]

\* create_final_csv, lines 367-456: one row per question
create_final_csv(qs) == [written |-> TRUE, named |-> qs.named, fresh |-> qs.fresh]

\* get_session_token, lines 46-60: ok is what the token endpoint answers
get_session_token(ts, count, token, ok) ==
    [ok |-> ok,
     token |-> IF ok THEN "tok" ELSE token,
     ts |-> http_request(wait_for_rate_limit(ts, count), "token")]

\* reset_token sending its request without wait_for_rate_limit
reset_token_no_wait(ts, count, token, ok) ==
    IF token # None
    THEN [ok |-> ok,
          ts |-> http_request([ts EXCEPT !.gap = ts.since,
                                         !.delay = get_adaptive_delay(count),
                                         !.since = 0], "reset")]
    ELSE [ok |-> FALSE, ts |-> ts]

\* reset_token, lines 62-74
reset_token(ts, count, token, ok) ==
    IF token # None
    THEN [ok |-> ok, ts |-> http_request(wait_for_rate_limit(ts, count), "reset")]
    ELSE [ok |-> FALSE, ts |-> ts]

DlInit ==
    /\ remote \in RemoteKinds
    /\ faults_left = IF remote = "named" THEN NamedFaults ELSE MaxFaults
    /\ all_questions = <<>>
    /\ unique_questions = {}
    /\ fresh = 0
    /\ seen_pairs = {}
    /\ consecutive_empty = 0
    /\ batch_number = 1
    /\ session_token = None
    /\ since_request = NoTime
    /\ current_count = 0
    /\ status = None
    /\ slept = 0
    /\ run_questions = Unbound
    /\ csv_file = NotWritten
    /\ request_log = <<>>
    /\ requested = 0
    /\ received = 0
    /\ dl_pc = "start"

\* the downloader on a steady source
SteadyInit ==
    /\ remote = "steady"
    /\ faults_left = SteadyFaults
    /\ all_questions = <<>>
    /\ unique_questions = {}
    /\ fresh = 0
    /\ seen_pairs = {}
    /\ consecutive_empty = 0
    /\ batch_number = 1
    /\ session_token = None
    /\ since_request = NoTime
    /\ current_count = 0
    /\ status = None
    /\ slept = 0
    /\ run_questions = Unbound
    /\ csv_file = NotWritten
    /\ request_log = <<>>
    /\ requested = 0
    /\ received = 0
    /\ dl_pc = "start"

SetClock(ts) ==
    /\ since_request' = ts.since
    /\ slept' = ts.slept
    /\ request_log' = ts.log

\* download_all_4620, lines 122-134
StartDownload ==
    /\ dl_pc = "start"
    /\ \E ok \in BOOLEAN :
         LET r == get_session_token(Clock, 0, session_token, ok)
         IN  /\ session_token' = r.token
             /\ SetClock(r.ts)
    /\ dl_pc' = "loop"
    /\ UNCHANGED <<remote, faults_left, all_questions, unique_questions, fresh,
                   seen_pairs, consecutive_empty, batch_number, current_count,
                   status, run_questions, csv_file>>
    /\ UNCHANGED <<requested, received>>
    /\ UNCHANGED bm_vars
    /\ UNCHANGED ex_vars

\* the while condition without the test of the target
LoopTest_no_target ==
    /\ dl_pc = "loop"
    /\ IF consecutive_empty < EmptyTolerance
       THEN /\ current_count' = LenAll
            /\ dl_pc' = "body"
       ELSE /\ dl_pc' = "done"
            /\ UNCHANGED current_count
    /\ UNCHANGED <<remote, faults_left, all_questions, unique_questions, fresh,
                   seen_pairs, consecutive_empty, batch_number, session_token,
                   since_request, status, slept, run_questions, csv_file>>
    /\ request_log' = <<>>
    /\ UNCHANGED <<requested, received>>
    /\ UNCHANGED bm_vars
    /\ UNCHANGED ex_vars

\* the while condition with the tolerance compared by <=
LoopTest_inclusive ==
    /\ dl_pc = "loop"
    /\ IF LenAll < total_target /\ consecutive_empty <= EmptyTolerance
       THEN /\ current_count' = LenAll
            /\ dl_pc' = "body"
       ELSE /\ dl_pc' = "done"
            /\ UNCHANGED current_count
    /\ UNCHANGED <<remote, faults_left, all_questions, unique_questions, fresh,
                   seen_pairs, consecutive_empty, batch_number, session_token,
                   since_request, status, slept, run_questions, csv_file>>
    /\ request_log' = <<>>
    /\ UNCHANGED <<requested, received>>
    /\ UNCHANGED bm_vars
    /\ UNCHANGED ex_vars

\* the while condition, line 136, and line 137
LoopTest ==
    /\ dl_pc = "loop"
    /\ IF LenAll < total_target /\ consecutive_empty < EmptyTolerance
       THEN /\ current_count' = LenAll
            /\ dl_pc' = "body"
       ELSE /\ dl_pc' = "done"
            /\ UNCHANGED current_count
    /\ UNCHANGED <<remote, faults_left, all_questions, unique_questions, fresh,
                   seen_pairs, consecutive_empty, batch_number, session_token,
                   since_request, status, slept, run_questions, csv_file>>
    /\ request_log' = <<>>
    /\ UNCHANGED <<requested, received>>
    /\ UNCHANGED bm_vars
    /\ UNCHANGED ex_vars

\* lines 140-147
batch_size_of(count) == IF count < MAX_DANGER THEN FastBatch ELSE SlowBatch

\* get_questions_batch, line 79
adaptive_amount == Min(batch_size_of(current_count), get_adaptive_batch_size(current_count))

\* line 161 and get_questions_batch, lines 76-111: the request is sent after
\* wait_for_rate_limit and answered by resp; slept restarts at the response
GetBatch(resp) ==
    /\ status' = classify(resp)[2]
    /\ requested' = adaptive_amount
    /\ received' = ResultLen(classify(resp)[1])
    /\ resp # TokenExhausted =>
         faults_left' = IF IsFault(resp, adaptive_amount) THEN faults_left - 1 ELSE faults_left

AfterBatch ==
    [http_request(wait_for_rate_limit(Clock, current_count), "batch") EXCEPT !.slept = 0]

\* the end of an iteration with the interval of the fast mode in both modes
EndOfIteration_one_interval(ts) ==
    LET maintenance_interval == FastMaintenance
        pause_time == IF current_count >= MAX_DANGER THEN SlowPause ELSE FastPause
    IN  /\ batch_number' = (batch_number + 1) % MaintenanceCycle
        /\ IF ((batch_number + 1) % MaintenanceCycle) % maintenance_interval = 0
           THEN SetClock(time_sleep(ts, pause_time))
           ELSE SetClock(ts)
        /\ dl_pc' = "loop"

\* lines 219-226: advance the batch number, then the maintenance pause
EndOfIteration(ts) ==
    LET maintenance_interval ==
            IF current_count >= MAX_DANGER THEN SlowMaintenance ELSE FastMaintenance
        pause_time == IF current_count >= MAX_DANGER THEN SlowPause ELSE FastPause
    IN  /\ batch_number' = (batch_number + 1) % MaintenanceCycle
        /\ IF ((batch_number + 1) % MaintenanceCycle) % maintenance_interval = 0
           THEN SetClock(time_sleep(ts, pause_time))
           ELSE SetClock(ts)
        /\ dl_pc' = "loop"

\* a successful iteration that resets the counter whatever the batch brought
BatchSuccess_always_reset ==
    /\ dl_pc = "body"
    /\ \E resp \in Responses(adaptive_amount) :
        LET questions == classify(resp)[1]
            m == merge_named(questions.named, 1, all_questions, unique_questions, 0)
            new_count == m[3] + questions.nfresh
        IN  /\ classify(resp)[2] = "success" /\ ResultLen(questions) > 0
            /\ GetBatch(resp)
            /\ all_questions' = m[1]
            /\ unique_questions' = m[2]
            /\ fresh' = fresh + questions.nfresh
            /\ consecutive_empty' = 0
            /\ seen_pairs' = seen_pairs
                   \cup { pair_of(questions.named[i]) : i \in 1..Len(questions.named) }
            /\ EndOfIteration(AfterBatch)
            /\ UNCHANGED <<remote, session_token, current_count, run_questions, csv_file>>
    /\ UNCHANGED bm_vars
    /\ UNCHANGED ex_vars

\* one iteration answered 'success' with results, lines 163-179
\* (enable_backups is False)
BatchSuccess ==
    /\ dl_pc = "body"
    /\ \E resp \in Responses(adaptive_amount) :
        LET questions == classify(resp)[1]
            m == merge_named(questions.named, 1, all_questions, unique_questions, 0)
            new_count == m[3] + questions.nfresh
        IN  /\ classify(resp)[2] = "success" /\ ResultLen(questions) > 0
            /\ GetBatch(resp)
            /\ all_questions' = m[1]
            /\ unique_questions' = m[2]
            /\ fresh' = fresh + questions.nfresh
            /\ consecutive_empty' = IF new_count > 0 THEN 0 ELSE consecutive_empty + 1
            /\ seen_pairs' = seen_pairs
                   \cup { pair_of(questions.named[i]) : i \in 1..Len(questions.named) }
            /\ EndOfIteration(AfterBatch)
            /\ UNCHANGED <<remote, session_token, current_count, run_questions, csv_file>>
    /\ UNCHANGED bm_vars
    /\ UNCHANGED ex_vars

\* a token-exhausted iteration that goes on to the end of the iteration after a
\* successful reset
BatchTokenEmpty_no_continue ==
    /\ dl_pc = "body"
    /\ \E resp \in Responses(adaptive_amount) :
       /\ classify(resp)[2] = "token_empty"
       /\ \E ok1 \in BOOLEAN, ok2 \in BOOLEAN :
        LET r1 == reset_token(AfterBatch, current_count, session_token, ok1)
            r2 == get_session_token(r1.ts, current_count, None, ok2)
        IN  /\ GetBatch(resp)
            /\ IF r1.ok
               THEN /\ consecutive_empty' = 0
                    /\ EndOfIteration(r1.ts)
                    /\ UNCHANGED session_token
               ELSE /\ session_token' = r2.token
                    /\ IF r2.ok
                       THEN /\ consecutive_empty' = 0
                            /\ SetClock(r2.ts)
                            /\ dl_pc' = "loop"
                            /\ UNCHANGED batch_number
                       ELSE /\ consecutive_empty' = consecutive_empty + 1
                            /\ EndOfIteration(r2.ts)
            /\ IF r1.ok \/ r2.ok
               THEN UNCHANGED faults_left
               ELSE faults_left > 0 /\ faults_left' = faults_left - 1
            /\ UNCHANGED <<remote, all_questions, unique_questions, fresh, seen_pairs,
                           current_count, run_questions, csv_file>>
    /\ UNCHANGED bm_vars
    /\ UNCHANGED ex_vars

\* one iteration answered 'token_empty', lines 192-204
BatchTokenEmpty ==
    /\ dl_pc = "body"
    /\ \E resp \in Responses(adaptive_amount) :
       /\ classify(resp)[2] = "token_empty"
       /\ \E ok1 \in BOOLEAN, ok2 \in BOOLEAN :
        LET r1 == reset_token(AfterBatch, current_count, session_token, ok1)
            r2 == get_session_token(r1.ts, current_count, None, ok2)
        IN  /\ GetBatch(resp)
            /\ IF r1.ok
               THEN /\ consecutive_empty' = 0
                    /\ SetClock(r1.ts)
                    /\ dl_pc' = "loop"
                    /\ UNCHANGED <<session_token, batch_number>>
               ELSE /\ session_token' = r2.token
                    /\ IF r2.ok
                       THEN /\ consecutive_empty' = 0
                            /\ SetClock(r2.ts)
                            /\ dl_pc' = "loop"
                            /\ UNCHANGED batch_number
                       ELSE /\ consecutive_empty' = consecutive_empty + 1
                            /\ EndOfIteration(r2.ts)
            /\ IF r1.ok \/ r2.ok
               THEN UNCHANGED faults_left
               ELSE faults_left > 0 /\ faults_left' = faults_left - 1
            /\ UNCHANGED <<remote, all_questions, unique_questions, fresh, seen_pairs,
                           current_count, run_questions, csv_file>>
    /\ UNCHANGED bm_vars
    /\ UNCHANGED ex_vars

\* a rate-limited iteration that counts the answer but does not pause
BatchRateLimit_no_sleep ==
    /\ dl_pc = "body"
    /\ \E resp \in Responses(adaptive_amount) :
            /\ classify(resp)[2] = "rate_limit"
            /\ GetBatch(resp)
            /\ consecutive_empty' = consecutive_empty + 1
            /\ EndOfIteration(AfterBatch)
            /\ UNCHANGED <<remote, all_questions, unique_questions, fresh, seen_pairs,
                           session_token, current_count, run_questions, csv_file>>
    /\ UNCHANGED bm_vars
    /\ UNCHANGED ex_vars

\* one iteration answered 'rate_limit', lines 206-210
BatchRateLimit ==
    /\ dl_pc = "body"
    /\ \E resp \in Responses(adaptive_amount) :
        LET pause_time == IF current_count >= MAX_DANGER THEN SlowPause ELSE FastPause
        IN  /\ classify(resp)[2] = "rate_limit"
            /\ GetBatch(resp)
            /\ consecutive_empty' = consecutive_empty + 1
            /\ EndOfIteration(time_sleep(AfterBatch, pause_time))
            /\ UNCHANGED <<remote, all_questions, unique_questions, fresh, seen_pairs,
                           session_token, current_count, run_questions, csv_file>>
    /\ UNCHANGED bm_vars
    /\ UNCHANGED ex_vars

\* one iteration answered 'no_results', lines 212-214
BatchNoResults ==
    /\ dl_pc = "body"
    /\ \E resp \in Responses(adaptive_amount) :
        /\ classify(resp)[2] = "no_results"
        /\ GetBatch(resp)
        /\ consecutive_empty' = consecutive_empty + 1
        /\ EndOfIteration(AfterBatch)
        /\ UNCHANGED <<remote, all_questions, unique_questions, fresh, seen_pairs,
                       session_token, current_count, run_questions, csv_file>>
    /\ UNCHANGED bm_vars
    /\ UNCHANGED ex_vars

\* an unclassified outcome that leaves the counter alone
BatchOther_not_counted ==
    /\ dl_pc = "body"
    /\ \E resp \in Responses(adaptive_amount) :
        /\ \/ classify(resp)[2] \in {"exception", "error_2", "http_500"}
           \/ classify(resp)[2] = "success" /\ ResultLen(classify(resp)[1]) = 0
        /\ GetBatch(resp)
        /\ consecutive_empty' = consecutive_empty
        /\ EndOfIteration(AfterBatch)
        /\ UNCHANGED <<remote, all_questions, unique_questions, fresh, seen_pairs,
                       session_token, current_count, run_questions, csv_file>>
    /\ UNCHANGED bm_vars
    /\ UNCHANGED ex_vars

\* one iteration with any other outcome, lines 216-217
BatchOther ==
    /\ dl_pc = "body"
    /\ \E resp \in Responses(adaptive_amount) :
        /\ \/ classify(resp)[2] \in {"exception", "error_2", "http_500"}
           \/ classify(resp)[2] = "success" /\ ResultLen(classify(resp)[1]) = 0
        /\ GetBatch(resp)
        /\ consecutive_empty' = consecutive_empty + 1
        /\ EndOfIteration(AfterBatch)
        /\ UNCHANGED <<remote, all_questions, unique_questions, fresh, seen_pairs,
                       session_token, current_count, run_questions, csv_file>>
    /\ UNCHANGED bm_vars
    /\ UNCHANGED ex_vars

Accumulated == [bound |-> TRUE, named |-> all_questions, fresh |-> fresh]

\* line 236 and run(), line 489: the assignment of the returned list
ReturnQuestions ==
    /\ dl_pc = "done"
    /\ run_questions' = Accumulated
    /\ dl_pc' = "returned"
    /\ UNCHANGED <<remote, faults_left, all_questions, unique_questions, fresh,
                   seen_pairs, consecutive_empty, batch_number, session_token,
                   since_request, current_count, status, slept, csv_file>>
    /\ UNCHANGED <<request_log, requested, received>>
    /\ UNCHANGED bm_vars
    /\ UNCHANGED ex_vars

\* run(), lines 491-502
CreateFinalCsv ==
    /\ dl_pc = "returned"
    /\ csv_file' = IF Len(run_questions.named) + run_questions.fresh > 0
                   THEN create_final_csv(run_questions) ELSE csv_file
    /\ dl_pc' = "exit"
    /\ UNCHANGED <<remote, faults_left, all_questions, unique_questions, fresh,
                   seen_pairs, consecutive_empty, batch_number, session_token,
                   since_request, current_count, status, slept, run_questions>>
    /\ UNCHANGED <<request_log, requested, received>>
    /\ UNCHANGED bm_vars
    /\ UNCHANGED ex_vars

\* KeyboardInterrupt raised inside the try block of run(), line 488, and
\* the except clause, lines 504-509
DlInterrupt ==
    /\ dl_pc \in {"start", "body", "done", "returned"}
    /\ csv_file' = IF run_questions.bound
                      /\ Len(run_questions.named) + run_questions.fresh > 0
                   THEN create_final_csv(run_questions) ELSE csv_file
    /\ dl_pc' = "interrupted"
    /\ UNCHANGED <<remote, faults_left, all_questions, unique_questions, fresh,
                   seen_pairs, consecutive_empty, batch_number, session_token,
                   since_request, current_count, status, slept, run_questions>>
    /\ UNCHANGED <<request_log, requested, received>>
    /\ UNCHANGED bm_vars
    /\ UNCHANGED ex_vars

DlNext ==
    \/ StartDownload
    \/ LoopTest
    \/ BatchSuccess
    \/ BatchTokenEmpty
    \/ BatchRateLimit
    \/ BatchNoResults
    \/ BatchOther
    \/ ReturnQuestions
    \/ CreateFinalCsv
    \/ DlInterrupt



(***************************************************************************)
(* MultiModelTriviaComparison: the random generator and prepare_questions. *)
(***************************************************************************)
RngMod == 16          \* size of the generator's state space
MaxRows == 3          \* rows of the CSV
MaxCalls == 2         \* invocations of prepare_questions that are followed

NoCap == -1
NoArg == -1
NaN == "NaN"

\* random.seed(42), line 35
Seed == 42
random_seed(n) == n % RngMod

rng_next(s) == (s * 5 + 3) % RngMod

\* the value in 0..n-1 drawn from state s
randbelow(n, s) == (rng_next(s) \div 4) % n

swap(x, i, j) == [x EXCEPT ![i] = x[j], ![j] = x[i]]

\* random.shuffle: for i in reversed(range(1, len(x))): j = randbelow(i + 1)
RECURSIVE random_shuffle(_, _, _)
random_shuffle(x, i, s) ==
    IF i < 2 THEN [list |-> x, rng |-> s]
    ELSE random_shuffle(swap(x, i, randbelow(i, s) + 1), i - 1, rng_next(s))

Letters == <<"A", "B", "C", "D">>

\* lines 44-48: pd.notna(cell) and cell.strip()
usable(cell) == cell # NaN /\ cell # " "

incorrect_answers(row) == SelectSeq(row.incorrect, usable)

\* lines 59-65: the letter of the last option equal to the correct answer;
\* an empty cell is the float nan, which == finds equal to nothing
correct_letter_of(shuffled, correct_answer) ==
    LET hits == { i \in 1..Len(shuffled) :
                    correct_answer # NaN /\ shuffled[i] = correct_answer }
    IN  IF hits = {} THEN "None"
        ELSE Letters[CHOOSE i \in hits : \A j \in hits : j <= i]

\* df.head(max_questions), lines 31-32
head(rows, cap) ==
    IF cap # NoCap /\ cap # 0 THEN SubSeq(rows, 1, Min(cap, Len(rows))) ELSE rows

\* the loop numbering each question by the index of its row
RECURSIVE prepare_rows_row_index(_, _, _, _)
prepare_rows_row_index(rows, i, prepared, s) ==
    IF i > Len(rows) THEN [prepared |-> prepared, rng |-> s]
    ELSE IF Len(incorrect_answers(rows[i])) < 2
         THEN prepare_rows_row_index(rows, i + 1, prepared, s)
         ELSE LET all_answers == <<rows[i].correct_answer>> \o incorrect_answers(rows[i])
                  sh == random_shuffle(all_answers, Len(all_answers), s)
                  q == [index |-> i,
                        question |-> rows[i].question,
                        correct_answer |-> rows[i].correct_answer,
                        correct_letter |-> correct_letter_of(sh.list, rows[i].correct_answer),
                        shuffled_answers |-> sh.list]
              IN  prepare_rows_row_index(rows, i + 1, Append(prepared, q), sh.rng)

\* lines 39-89 from row i on
RECURSIVE prepare_rows(_, _, _, _)
prepare_rows(rows, i, prepared, s) ==
    IF i > Len(rows) THEN [prepared |-> prepared, rng |-> s]
    ELSE IF Len(incorrect_answers(rows[i])) < 2
         THEN prepare_rows(rows, i + 1, prepared, s)
         ELSE LET all_answers == <<rows[i].correct_answer>> \o incorrect_answers(rows[i])
                  sh == random_shuffle(all_answers, Len(all_answers), s)
                  q == [index |-> Len(prepared) + 1,
                        question |-> rows[i].question,
                        correct_answer |-> rows[i].correct_answer,
                        correct_letter |-> correct_letter_of(sh.list, rows[i].correct_answer),
                        shuffled_answers |-> sh.list]
              IN  prepare_rows(rows, i + 1, Append(prepared, q), sh.rng)

\* prepare_questions without line 35
prepare_questions_unseeded(rows, cap, s) == prepare_rows(head(rows, cap), 1, <<>>, s)

\* prepare_questions, lines 29-94, entered with the generator in state s
prepare_questions(rows, cap, s) == prepare_rows(head(rows, cap), 1, <<>>, random_seed(Seed))

(***************************************************************************)
(* extract_letter_choice, lines 406-470, on texts that are sequences of    *)
(* tokens: words, punctuation, the newline "\n" and the marker             *)
(* "</think>"; tokens on one line are separated by blanks.                 *)
(***************************************************************************)
NoLetter == "None"

IsLetter(t) == t \in {"A", "B", "C", "D", "a", "b", "c", "d"}

upper(t) == CASE t = "a" -> "A" [] t = "b" -> "B" [] t = "c" -> "C" [] t = "d" -> "D"
              [] OTHER -> t

\* str.strip on a token sequence: the newlines at both ends go
RECURSIVE strip(_)
strip(text) ==
    IF text = <<>> THEN text
    ELSE IF Head(text) = "\n" THEN strip(Tail(text))
    ELSE IF text[Len(text)] = "\n" THEN strip(SubSeq(text, 1, Len(text) - 1))
    ELSE text

\* str.split('\n')
RECURSIVE split_lines(_, _, _)
split_lines(text, i, cur) ==
    IF i > Len(text) THEN <<cur>>
    ELSE IF text[i] = "\n" THEN <<cur>> \o split_lines(text, i + 1, <<>>)
    ELSE split_lines(text, i + 1, Append(cur, text[i]))

\* re.match(r'^[ABCD]$', line.upper()) on a stripped line
is_letter_line(line) == Len(line) = 1 /\ IsLetter(line[1])

LastOf(S) == CHOOSE i \in S : \A j \in S : j <= i
FirstOf(S) == CHOOSE i \in S : \A j \in S : i <= j

\* re.findall(r'\b[ABCD]\b', text.upper()): the positions of the letter tokens
standalone(text) == { i \in 1..Len(text) : IsLetter(text[i]) }

\* the words of a text, the newlines being white space for \s
words(text) == SelectSeq(text, LAMBDA t : t # "\n")

At(w, i) == IF i >= 1 /\ i <= Len(w) THEN w[i] ELSE ""

\* answer_patterns, lines 439-445: the positions of the letter each matches
answer_pattern(n, w) ==
    { i \in 1..Len(w) :
        /\ IsLetter(w[i])
        /\ CASE n = 1 -> At(w, i - 1) = "is" /\ At(w, i - 2) = "answer"
             [] n = 2 -> At(w, i - 1) \in {"choose", "select"}
             [] n = 3 -> At(w, i - 1) = "option"
             [] n = 4 -> /\ At(w, i + 1) = "is"
                         /\ \/ At(w, i + 2) \in {"answer", "choice"}
                            \/ At(w, i + 2) \in {"the", "correct"}
                                 /\ At(w, i + 3) \in {"answer", "choice"}
                            \/ At(w, i + 2) = "the" /\ At(w, i + 3) = "correct"
                                 /\ At(w, i + 4) \in {"answer", "choice"}
             [] OTHER -> \/ At(w, i - 1) \in {"answer", "choice"}
                         \/ At(w, i - 1) \in {"is", ":"} /\ At(w, i - 2) \in {"answer", "choice"}
                         \/ At(w, i - 1) = ":" /\ At(w, i - 2) = "is"
                              /\ At(w, i - 3) \in {"answer", "choice"} }

\* a token in which a letter is glued to a word character, such as "1A)"
Glued == {"1A)", "1B)", "1C)", "1D)"}

glued_letter(t) == CASE t = "1A)" -> "A" [] t = "1B)" -> "B" [] t = "1C)" -> "C"
                     [] OTHER -> "D"

\* broader_patterns, lines 458-463, where \b[ABCD]\b found nothing
broader(w) == { i \in 1..Len(w) : w[i] \in Glued }

\* extract_letter_choice looking for a standalone letter before the patterns
extract_letter_choice_letters_first(ai_response) ==
    LET response == strip(ai_response)
        has_think == \E i \in 1..Len(response) : response[i] = "</think>"
        last_think == LastOf({ i \in 1..Len(response) : response[i] = "</think>" })
        post_think == IF has_think
                      THEN strip(SubSeq(response, last_think + 1, Len(response)))
                      ELSE <<>>
        post_lines == split_lines(post_think, 1, <<>>)
        post_hits == { i \in 1..Len(post_lines) : is_letter_line(post_lines[i]) }
        lines == split_lines(response, 1, <<>>)
        hits == { i \in 1..Len(lines) : is_letter_line(lines[i]) }
        w == words(response)
        matching == { n \in 1..5 : answer_pattern(n, w) # {} }
    IN  IF has_think /\ post_hits # {} THEN upper(post_lines[FirstOf(post_hits)][1])
        ELSE IF has_think /\ standalone(post_think) # {}
             THEN upper(post_think[LastOf(standalone(post_think))])
        ELSE IF hits # {} THEN upper(lines[LastOf(hits)][1])
        ELSE IF standalone(response) # {} THEN upper(response[LastOf(standalone(response))])
        ELSE IF matching # {} THEN upper(w[LastOf(answer_pattern(FirstOf(matching), w))])
        ELSE IF broader(w) # {} THEN glued_letter(w[LastOf(broader(w))])
        ELSE NoLetter

extract_letter_choice(ai_response) ==
    LET response == strip(ai_response)
        has_think == \E i \in 1..Len(response) : response[i] = "</think>"
        last_think == LastOf({ i \in 1..Len(response) : response[i] = "</think>" })
        post_think == IF has_think
                      THEN strip(SubSeq(response, last_think + 1, Len(response)))
                      ELSE <<>>
        post_lines == split_lines(post_think, 1, <<>>)
        post_hits == { i \in 1..Len(post_lines) : is_letter_line(post_lines[i]) }
        lines == split_lines(response, 1, <<>>)
        hits == { i \in 1..Len(lines) : is_letter_line(lines[i]) }
        w == words(response)
        matching == { n \in 1..5 : answer_pattern(n, w) # {} }
    IN  IF has_think /\ post_hits # {} THEN upper(post_lines[FirstOf(post_hits)][1])
        ELSE IF has_think /\ standalone(post_think) # {}
             THEN upper(post_think[LastOf(standalone(post_think))])
        ELSE IF hits # {} THEN upper(lines[LastOf(hits)][1])
        ELSE IF matching # {} THEN upper(w[LastOf(answer_pattern(FirstOf(matching), w))])
        ELSE IF standalone(response) # {} THEN upper(response[LastOf(standalone(response))])
        ELSE IF broader(w) # {} THEN glued_letter(w[LastOf(broader(w))])
        ELSE NoLetter

(***************************************************************************)
(* extract_letter_choice applied to two responses, one after the other.    *)
(***************************************************************************)
MaxTextLen == 3       \* tokens in a response

TextTokens == {"</think>", "B", "c", "not", "\n"}

Texts == UNION { [1..n -> TextTokens] : n \in 0..MaxTextLen }

ExtInit ==
    /\ test_cases \in [1..2 -> Texts]
    /\ extraction_result = <<>>

\* one call of extract_letter_choice, on the next response
ExtractLetter ==
    /\ Len(extraction_result) < Len(test_cases)
    /\ extraction_result' =
         Append(extraction_result,
                extract_letter_choice(test_cases[Len(extraction_result) + 1]))
    /\ UNCHANGED test_cases
    /\ UNCHANGED <<dl_vars, bm_vars>>

ExtNext == ExtractLetter

(***************************************************************************)
(* extract_letter_choice applied to one response without a marker.         *)
(***************************************************************************)
MaxPlainLen == 4      \* tokens in a response without a marker

PlainTokens == {"B", "c", "\n", "choose", "answer", "is", "1A)", "not"}

PlainTexts == UNION { [1..n -> PlainTokens] : n \in 0..MaxPlainLen }

PlainInit ==
    /\ test_cases \in [1..1 -> PlainTexts]
    /\ extraction_result = <<>>

\* what the inference endpoint does with one request
ModelTexts ==
    { <<"C">>,
      <<"<think>", "maybe", "B", "</think>", "\n", "the", "answer", "is", "A">>,
      <<"not", "sure">> }

ModelOutcomes ==
    { [kind |-> "ok", text |-> t] : t \in ModelTexts }
    \cup { [kind |-> k, text |-> <<>>] : k \in {"timeout", "http", "transport"} }

\* ask_model with a second attempt after a failed request
ask_model_retry(outcome) ==
    CASE outcome.kind = "ok" -> <<TRUE, strip(outcome.text), 1>>
      [] outcome.kind = "timeout" -> <<FALSE, <<"TIMEOUT">>, 2>>
      [] outcome.kind = "http" -> <<FALSE, <<"HTTP">>, 2>>
      [] OTHER -> <<FALSE, <<"ERROR">>, 2>>

\* ask_model, lines 522-535: <<success, ai_response>> and, third, the number
\* of requests.post calls it made
ask_model(outcome) ==
    CASE outcome.kind = "ok" -> <<TRUE, strip(outcome.text), 1>>
      [] outcome.kind = "timeout" -> <<FALSE, <<"TIMEOUT">>, 1>>
      [] outcome.kind = "http" -> <<FALSE, <<"HTTP">>, 1>>
      [] OTHER -> <<FALSE, <<"ERROR">>, 1>>

(***************************************************************************)
(* The inputs of the benchmark.                                            *)
(***************************************************************************)
Rows ==
    { [question |-> "q1", correct_answer |-> "p", incorrect |-> <<"q", "r", "s">>],
      [question |-> "q2", correct_answer |-> "p", incorrect |-> <<"q", NaN, NaN>>],
      [question |-> "q3", correct_answer |-> "p", incorrect |-> <<"q", " ", "r">>] }

Datasets == UNION { [1..n -> Rows] : n \in 0..MaxRows }

Caps == {NoCap} \cup (0..MaxRows)

\* CSV files in which the correct_answer cell of a row may be empty as well
MaxSparseRows == 2    \* rows of such a CSV

SparseRows ==
    { [question |-> "q1", correct_answer |-> c, incorrect |-> inc] :
        c \in {"p", NaN},
        inc \in { <<"q", "r", "s">>, <<"q", "r", NaN>>, <<"q", NaN, NaN>> } }

SparseDatasets == UNION { [1..n -> SparseRows] : n \in 0..MaxSparseRows }

\* the CSV files the benchmark is run on: q1, q2, q3 in this order, or q3 alone
BenchDatasets ==
    { d \in Datasets :
        \/ (Len(d) = 1 /\ d[1].question = "q3")
        \/ (Len(d) = 3 /\ \A i \in 1..3 : d[i].question = <<"q1", "q2", "q3">>[i]) }

\* run_interactive, lines 693-706: the models the user selects, possibly none
ModelSelections == { <<"llama", "qwen">>, <<>> }

Names == { models[i] : i \in 1..Len(models) }

\* n calls so far, the last one entered with the generator in state entry,
\* which differed from the state the call before it was entered with
NoCalls == [n |-> 0, entry |-> 0, differed |-> FALSE]

NotSaved == [written |-> FALSE, summaries |-> <<>>, details |-> <<>>]

\* the cross-check printed nothing
NoReport == [counts |-> "none", letters |-> "none"]

BmInit ==
    /\ df \in BenchDatasets
    /\ max_questions = NoCap
    /\ rng = 0
    /\ prepared_questions = <<>>
    /\ prepare_calls = NoCalls
    /\ prev_prepared = <<>>
    /\ models \in ModelSelections
    /\ max_workers \in {NoArg, 0, 1}
    /\ w_pc = [m \in Names |-> "none"]
    /\ total_count = [m \in Names |-> 0]
    /\ correct_count = [m \in Names |-> 0]
    /\ results = [m \in Names |-> <<>>]
    /\ final_accuracy = [m \in Names |-> <<0, 1>>]
    /\ progress_queue = 0
    /\ completed_models = 0
    /\ collected = {}
    /\ model_summaries = <<>>
    /\ all_detailed_results = <<>>
    /\ all_results = <<>>
    /\ saved = NotSaved
    /\ consistency = NoReport
    /\ requests_sent = [m \in Names |-> 0]
    /\ pc = "init"

\* one call of prepare_questions, lines 29-94
PrepareCall ==
    LET prep == prepare_questions(df, max_questions, rng)
    IN  /\ prepared_questions' = prep.prepared
        /\ rng' = prep.rng
        /\ prepare_calls' = [n |-> prepare_calls.n + 1, entry |-> rng,
                             differed |-> prepare_calls.n > 0 /\ prepare_calls.entry # rng]
        /\ prev_prepared' = prepared_questions

\* the pool size run_comparison uses, lines 107-108
pool_size == IF max_workers = NoArg THEN Min(Len(models), 4) ELSE max_workers

\* run_comparison, lines 96-147: prepare, size the pool, submit every model;
\* ThreadPoolExecutor raises ValueError for a size below 1, line 139
StartComparison ==
    /\ pc = "init"
    /\ PrepareCall
    /\ max_workers' = pool_size
    /\ IF pool_size <= 0
       THEN /\ pc' = "crashed"
            /\ UNCHANGED w_pc
       ELSE /\ pc' = "collect"
            /\ w_pc' = [m \in Names |-> "queued"]
    /\ UNCHANGED <<df, max_questions, models, total_count, correct_count, results,
                   final_accuracy, progress_queue, completed_models, collected,
                   model_summaries, all_detailed_results, all_results, saved>>
    /\ UNCHANGED <<consistency, requests_sent>>
    /\ UNCHANGED dl_vars
    /\ UNCHANGED ex_vars

Running == { m \in Names : w_pc[m] = "running" }

\* the pool starts test_single_model_threaded, lines 181-192; thread_safe_print
\* either prints or raises
WorkerStart(m) ==
    /\ pc = "collect"
    /\ w_pc[m] = "queued"
    /\ Cardinality(Running) < max_workers
    /\ \E print_ok \in BOOLEAN :
         w_pc' = [w_pc EXCEPT ![m] = IF print_ok THEN "running" ELSE "raised"]
    /\ UNCHANGED <<df, max_questions, rng, prepared_questions, prepare_calls,
                   prev_prepared, models, max_workers, total_count, correct_count,
                   results, final_accuracy, progress_queue, completed_models,
                   collected, model_summaries, all_detailed_results, all_results,
                   saved, pc>>
    /\ UNCHANGED <<consistency, requests_sent>>
    /\ UNCHANGED dl_vars
    /\ UNCHANGED ex_vars

\* the record of one question when every worker shuffles the options itself,
\* with a generator seeded per worker
answer_record_own_shuffle(m, n, q_data, asked) ==
    LET success == asked[1]
        ai_response == asked[2]
        extracted == extract_letter_choice(ai_response)
        ai_letter == IF ~success THEN "ERROR"
                     ELSE IF extracted = NoLetter THEN "NONE" ELSE extracted
        seed == CHOOSE k \in 1..Len(models) : models[k] = m
        own == random_shuffle(q_data.shuffled_answers, Len(q_data.shuffled_answers),
                              random_seed(seed)).list
        own_letter == correct_letter_of(own, q_data.correct_answer)
        is_correct == success /\ extracted # NoLetter /\ extracted = own_letter
    IN  [model |-> m,
         question_num |-> n,
         question |-> q_data.question,
         correct_letter |-> own_letter,
         ai_response |-> ai_response,
         ai_letter |-> ai_letter,
         is_correct |-> is_correct]

\* the record of one question when any extracted letter counts as correct
answer_record_any_letter(m, n, q_data, asked) ==
    LET success == asked[1]
        ai_response == asked[2]
        extracted == extract_letter_choice(ai_response)
        ai_letter == IF ~success THEN "ERROR"
                     ELSE IF extracted = NoLetter THEN "NONE" ELSE extracted
        is_correct == success /\ extracted # NoLetter
    IN  [model |-> m,
         question_num |-> n,
         question |-> q_data.question,
         correct_letter |-> q_data.correct_letter,
         ai_response |-> ai_response,
         ai_letter |-> ai_letter,
         is_correct |-> is_correct]

\* lines 205-245: the record of one question
answer_record(m, n, q_data, asked) ==
    LET success == asked[1]
        ai_response == asked[2]
        extracted == extract_letter_choice(ai_response)
        ai_letter == IF ~success THEN "ERROR"
                     ELSE IF extracted = NoLetter THEN "NONE" ELSE extracted
        is_correct == success /\ extracted # NoLetter /\ extracted = q_data.correct_letter
    IN  [model |-> m,
         question_num |-> n,
         question |-> q_data.question,
         correct_letter |-> q_data.correct_letter,
         ai_response |-> ai_response,
         ai_letter |-> ai_letter,
         is_correct |-> is_correct]

\* one iteration of the loop when a failed request ends the worker
WorkerQuestion_abort(m) ==
    /\ pc = "collect"
    /\ w_pc[m] = "running"
    /\ total_count[m] < Len(prepared_questions)
    /\ LET n == total_count[m] + 1
           q_data == prepared_questions[n]
       IN  /\ total_count' = [total_count EXCEPT ![m] = n]
           /\ \/ /\ (n % 5 = 0 \/ n = 1)
                 /\ w_pc' = [w_pc EXCEPT ![m] = "raised"]
                 /\ UNCHANGED <<results, correct_count, requests_sent>>
              \/ \E outcome \in ModelOutcomes :
                   LET asked == ask_model(outcome)
                       result == answer_record(m, n, q_data, asked)
                   IN  /\ requests_sent' = [requests_sent EXCEPT ![m] = @ + asked[3]]
                       /\ results' = [results EXCEPT ![m] = Append(@, result)]
                       /\ correct_count' = [correct_count EXCEPT
                                              ![m] = IF result.is_correct THEN @ + 1 ELSE @]
                       /\ w_pc' = [w_pc EXCEPT
                                     ![m] = IF result.ai_letter = "ERROR"
                                            THEN "returned" ELSE @]
    /\ UNCHANGED <<df, max_questions, rng, prepared_questions, prepare_calls,
                   prev_prepared, models, max_workers, final_accuracy, progress_queue,
                   completed_models, collected, model_summaries, all_detailed_results,
                   all_results, saved, pc>>
    /\ UNCHANGED consistency
    /\ UNCHANGED dl_vars
    /\ UNCHANGED ex_vars

\* one iteration of the loop when the worker appends its record to the shared
\* list itself
WorkerQuestion_shared(m) ==
    /\ pc = "collect"
    /\ w_pc[m] = "running"
    /\ total_count[m] < Len(prepared_questions)
    /\ LET n == total_count[m] + 1
           q_data == prepared_questions[n]
       IN  /\ total_count' = [total_count EXCEPT ![m] = n]
           /\ \/ /\ (n % 5 = 0 \/ n = 1)
                 /\ w_pc' = [w_pc EXCEPT ![m] = "raised"]
                 /\ UNCHANGED <<results, correct_count, requests_sent, all_detailed_results>>
              \/ \E outcome \in ModelOutcomes :
                   LET asked == ask_model(outcome)
                       result == answer_record(m, n, q_data, asked)
                   IN  /\ requests_sent' = [requests_sent EXCEPT ![m] = @ + asked[3]]
                       /\ results' = [results EXCEPT ![m] = Append(@, result)]
                       /\ all_detailed_results' = Append(all_detailed_results, result)
                       /\ correct_count' = [correct_count EXCEPT
                                              ![m] = IF result.is_correct THEN @ + 1 ELSE @]
                       /\ UNCHANGED w_pc
    /\ UNCHANGED <<df, max_questions, rng, prepared_questions, prepare_calls,
                   prev_prepared, models, max_workers, final_accuracy, progress_queue,
                   completed_models, collected, model_summaries,
                   all_results, saved, pc>>
    /\ UNCHANGED consistency
    /\ UNCHANGED dl_vars
    /\ UNCHANGED ex_vars

\* one iteration of the loop of test_single_model_threaded, lines 194-250
WorkerQuestion(m) ==
    /\ pc = "collect"
    /\ w_pc[m] = "running"
    /\ total_count[m] < Len(prepared_questions)
    /\ LET n == total_count[m] + 1
           q_data == prepared_questions[n]
       IN  /\ total_count' = [total_count EXCEPT ![m] = n]
           /\ \/ /\ (n % 5 = 0 \/ n = 1)
                 /\ w_pc' = [w_pc EXCEPT ![m] = "raised"]
                 /\ UNCHANGED <<results, correct_count, requests_sent>>
              \/ \E outcome \in ModelOutcomes :
                   LET asked == ask_model(outcome)
                       result == answer_record(m, n, q_data, asked)
                   IN  /\ requests_sent' = [requests_sent EXCEPT ![m] = @ + asked[3]]
                       /\ results' = [results EXCEPT ![m] = Append(@, result)]
                       /\ correct_count' = [correct_count EXCEPT
                                              ![m] = IF result.is_correct THEN @ + 1 ELSE @]
                       /\ UNCHANGED w_pc
    /\ UNCHANGED <<df, max_questions, rng, prepared_questions, prepare_calls,
                   prev_prepared, models, max_workers, final_accuracy, progress_queue,
                   completed_models, collected, model_summaries, all_detailed_results,
                   all_results, saved, pc>>
    /\ UNCHANGED consistency
    /\ UNCHANGED dl_vars
    /\ UNCHANGED ex_vars

\* the accuracy left as the ratio, without the factor 100
accuracy_of_ratio(correct, total) == IF total > 0 THEN <<correct, total>> ELSE <<0, 1>>

\* line 253: (correct_count / total_count) * 100, as the fraction <<num, den>>
accuracy_of(correct, total) == IF total > 0 THEN <<correct * 100, total>> ELSE <<0, 1>>

\* lines 252-265: the final prints, the "COMPLETE" message and the return
WorkerFinish(m) ==
    /\ pc = "collect"
    /\ w_pc[m] = "running"
    /\ total_count[m] = Len(prepared_questions)
    /\ \/ /\ w_pc' = [w_pc EXCEPT ![m] = "raised"]
          /\ UNCHANGED <<final_accuracy, progress_queue>>
       \/ /\ final_accuracy' = [final_accuracy EXCEPT
                                  ![m] = accuracy_of(correct_count[m], total_count[m])]
          /\ progress_queue' = progress_queue + 1
          /\ w_pc' = [w_pc EXCEPT ![m] = "returned"]
    /\ UNCHANGED <<df, max_questions, rng, prepared_questions, prepare_calls,
                   prev_prepared, models, max_workers, total_count, correct_count,
                   results, completed_models, collected, model_summaries,
                   all_detailed_results, all_results, saved, pc>>
    /\ UNCHANGED <<consistency, requests_sent>>
    /\ UNCHANGED dl_vars
    /\ UNCHANGED ex_vars

\* progress_updater, lines 121-132
ProgressUpdate ==
    /\ pc \in {"collect", "returned", "saved"}
    /\ completed_models < Len(models)
    /\ progress_queue > 0
    /\ progress_queue' = progress_queue - 1
    /\ completed_models' = completed_models + 1
    /\ UNCHANGED <<df, max_questions, rng, prepared_questions, prepare_calls,
                   prev_prepared, models, max_workers, w_pc, total_count,
                   correct_count, results, final_accuracy, collected,
                   model_summaries, all_detailed_results, all_results, saved, pc>>
    /\ UNCHANGED <<consistency, requests_sent>>
    /\ UNCHANGED dl_vars
    /\ UNCHANGED ex_vars

NumCorrect(rs) == Cardinality({ i \in 1..Len(rs) : rs[i].is_correct })

\* one turn of the as_completed loop without the except clause: a worker that
\* raised leaves no summary
Collect_no_except(m) ==
    /\ pc = "collect"
    /\ m \notin collected
    /\ w_pc[m] \in {"returned", "raised"}
    /\ collected' = collected \cup {m}
    /\ IF w_pc[m] = "returned"
       THEN /\ model_summaries' = Append(model_summaries,
                  [model |-> m, accuracy |-> final_accuracy[m],
                   correct |-> NumCorrect(results[m]), total |-> Len(results[m])])
            /\ all_detailed_results' = all_detailed_results \o results[m]
            /\ all_results' = [x \in DOMAIN all_results \cup {m} |->
                                  IF x = m THEN results[m] ELSE all_results[x]]
       ELSE UNCHANGED <<model_summaries, all_detailed_results, all_results>>
    /\ UNCHANGED <<df, max_questions, rng, prepared_questions, prepare_calls,
                   prev_prepared, models, max_workers, w_pc, total_count,
                   correct_count, results, final_accuracy, progress_queue,
                   completed_models, saved, pc>>
    /\ UNCHANGED <<consistency, requests_sent>>
    /\ UNCHANGED dl_vars
    /\ UNCHANGED ex_vars

\* one turn of the as_completed loop, lines 150-174
Collect(m) ==
    /\ pc = "collect"
    /\ m \notin collected
    /\ w_pc[m] \in {"returned", "raised"}
    /\ collected' = collected \cup {m}
    /\ IF w_pc[m] = "returned"
       THEN /\ model_summaries' = Append(model_summaries,
                  [model |-> m, accuracy |-> final_accuracy[m],
                   correct |-> NumCorrect(results[m]), total |-> Len(results[m])])
            /\ all_detailed_results' = all_detailed_results \o results[m]
            /\ all_results' = [x \in DOMAIN all_results \cup {m} |->
                                  IF x = m THEN results[m] ELSE all_results[x]]
       ELSE /\ model_summaries' = Append(model_summaries,
                  [model |-> m, accuracy |-> <<0, 1>>, correct |-> 0, total |-> 0])
            /\ UNCHANGED <<all_detailed_results, all_results>>
    /\ UNCHANGED <<df, max_questions, rng, prepared_questions, prepare_calls,
                   prev_prepared, models, max_workers, w_pc, total_count,
                   correct_count, results, final_accuracy, progress_queue,
                   completed_models, saved, pc>>
    /\ UNCHANGED <<consistency, requests_sent>>
    /\ UNCHANGED dl_vars
    /\ UNCHANGED ex_vars

\* the cross-check of show_final_comparison, lines 593-615, on the merged
\* records: the record count per model that has records, and the
\* correct_letter values per question_num
show_final_comparison(all) ==
    LET recs == { all[i] : i \in 1..Len(all) }
        questions_per_model ==
            { Cardinality({ i \in 1..Len(all) : all[i].model = r.model }) : r \in recs }
        inconsistent_questions ==
            { r.question_num : r \in { x \in recs :
                  \E y \in recs : /\ y.question_num = x.question_num
                                   /\ y.correct_letter # x.correct_letter } }
    IN  IF Len(all) > 0
        THEN [counts |-> IF Cardinality(questions_per_model) = 1 THEN "ok" ELSE "differ",
              letters |-> IF inconsistent_questions = {} THEN "ok" ELSE "differ"]
        ELSE NoReport

\* the final report as soon as one future has been collected
FinishComparison_early ==
    /\ pc = "collect"
    /\ collected # {}
    /\ consistency' = show_final_comparison(all_detailed_results)
    /\ pc' = "returned"
    /\ UNCHANGED <<df, max_questions, rng, prepared_questions, prepare_calls,
                   prev_prepared, models, max_workers, w_pc, total_count,
                   correct_count, results, final_accuracy, progress_queue,
                   completed_models, collected, model_summaries,
                   all_detailed_results, all_results, saved>>
    /\ UNCHANGED requests_sent
    /\ UNCHANGED dl_vars
    /\ UNCHANGED ex_vars

\* lines 176-179: every future has been collected; the final report
FinishComparison ==
    /\ pc = "collect"
    /\ collected = Names
    /\ consistency' = show_final_comparison(all_detailed_results)
    /\ pc' = "returned"
    /\ UNCHANGED <<df, max_questions, rng, prepared_questions, prepare_calls,
                   prev_prepared, models, max_workers, w_pc, total_count,
                   correct_count, results, final_accuracy, progress_queue,
                   completed_models, collected, model_summaries,
                   all_detailed_results, all_results, saved>>
    /\ UNCHANGED requests_sent
    /\ UNCHANGED dl_vars
    /\ UNCHANGED ex_vars

\* run_interactive, line 802, and save_comparison_results, lines 653-672
SaveResults ==
    /\ pc = "returned"
    /\ saved' = [written |-> TRUE, summaries |-> model_summaries,
                 details |-> all_detailed_results]
    /\ pc' = "saved"
    /\ UNCHANGED <<df, max_questions, rng, prepared_questions, prepare_calls,
                   prev_prepared, models, max_workers, w_pc, total_count,
                   correct_count, results, final_accuracy, progress_queue,
                   completed_models, collected, model_summaries,
                   all_detailed_results, all_results>>
    /\ UNCHANGED <<consistency, requests_sent>>
    /\ UNCHANGED dl_vars
    /\ UNCHANGED ex_vars

\* KeyboardInterrupt inside the try block of run_interactive, lines 798-805;
\* the workers are not followed any further
Interrupt ==
    /\ pc \in {"collect", "returned"}
    /\ pc' = "interrupted"
    /\ UNCHANGED <<df, max_questions, rng, prepared_questions, prepare_calls,
                   prev_prepared, models, max_workers, w_pc, total_count,
                   correct_count, results, final_accuracy, progress_queue,
                   completed_models, collected, model_summaries,
                   all_detailed_results, all_results, saved>>
    /\ UNCHANGED <<consistency, requests_sent>>
    /\ UNCHANGED dl_vars
    /\ UNCHANGED ex_vars

BmNext ==
    \/ StartComparison
    \/ \E m \in Names : WorkerStart(m)
    \/ \E m \in Names : WorkerQuestion(m)
    \/ \E m \in Names : WorkerFinish(m)
    \/ ProgressUpdate
    \/ \E m \in Names : Collect(m)
    \/ FinishComparison
    \/ SaveResults
    \/ Interrupt

\* prepare_questions called once more on the same rows
PrepareAgain ==
    /\ pc = "prepare"
    /\ prepare_calls.n < MaxCalls
    /\ PrepareCall
    /\ UNCHANGED <<df, max_questions, models, max_workers, w_pc, total_count,
                   correct_count, results, final_accuracy, progress_queue,
                   completed_models, collected, model_summaries,
                   all_detailed_results, all_results, saved, pc>>
    /\ UNCHANGED <<consistency, requests_sent>>
    /\ UNCHANGED dl_vars
    /\ UNCHANGED ex_vars

\* any other use of the module-level generator, such as random.shuffle in
\* trivia_game.py, line 275
UseRandom ==
    /\ pc = "prepare"
    /\ rng' = rng_next(rng)
    /\ UNCHANGED <<df, max_questions, prepared_questions, prepare_calls, prev_prepared,
                   models, max_workers, w_pc, total_count, correct_count, results,
                   final_accuracy, progress_queue, completed_models, collected,
                   model_summaries, all_detailed_results, all_results, saved, pc>>
    /\ UNCHANGED <<consistency, requests_sent>>
    /\ UNCHANGED dl_vars
    /\ UNCHANGED ex_vars

PrepNext == PrepareAgain \/ UseRandom

\* the benchmark at rest, for the specifications of the downloader
BmIdle ==
    /\ df = <<>>
    /\ max_questions = NoCap
    /\ rng = 0
    /\ prepared_questions = <<>>
    /\ prepare_calls = NoCalls
    /\ prev_prepared = <<>>
    /\ models = <<>>
    /\ max_workers = NoArg
    /\ w_pc = <<>>
    /\ total_count = <<>>
    /\ correct_count = <<>>
    /\ results = <<>>
    /\ final_accuracy = <<>>
    /\ progress_queue = 0
    /\ completed_models = 0
    /\ collected = {}
    /\ model_summaries = <<>>
    /\ all_detailed_results = <<>>
    /\ all_results = <<>>
    /\ saved = NotSaved
    /\ pc = "idle"
    /\ consistency = NoReport
    /\ requests_sent = <<>>

\* the downloader at rest, for the specifications of the benchmark
DlIdle ==
    /\ remote = "named"
    /\ faults_left = 0
    /\ all_questions = <<>>
    /\ unique_questions = {}
    /\ fresh = 0
    /\ seen_pairs = {}
    /\ consecutive_empty = 0
    /\ batch_number = 1
    /\ session_token = None
    /\ since_request = NoTime
    /\ current_count = 0
    /\ status = None
    /\ slept = 0
    /\ run_questions = Unbound
    /\ csv_file = NotWritten
    /\ dl_pc = "idle"
    /\ request_log = <<>>
    /\ requested = 0
    /\ received = 0

\* prepare_questions on every CSV and cap, the generator in any state
PrepInit ==
    /\ df \in Datasets
    /\ max_questions \in Caps
    /\ rng \in 0..(RngMod - 1)
    /\ prepared_questions = <<>>
    /\ prepare_calls = NoCalls
    /\ prev_prepared = <<>>
    /\ models = <<>>
    /\ max_workers = NoArg
    /\ w_pc = <<>>
    /\ total_count = <<>>
    /\ correct_count = <<>>
    /\ results = <<>>
    /\ final_accuracy = <<>>
    /\ progress_queue = 0
    /\ completed_models = 0
    /\ collected = {}
    /\ model_summaries = <<>>
    /\ all_detailed_results = <<>>
    /\ all_results = <<>>
    /\ saved = NotSaved
    /\ consistency = NoReport
    /\ requests_sent = <<>>
    /\ pc = "prepare"

\* prepare_questions on the CSV files with empty cells, without a cap
SparsePrepInit ==
    /\ df \in SparseDatasets
    /\ max_questions = NoCap
    /\ rng \in 0..(RngMod - 1)
    /\ prepared_questions = <<>>
    /\ prepare_calls = NoCalls
    /\ prev_prepared = <<>>
    /\ models = <<>>
    /\ max_workers = NoArg
    /\ w_pc = <<>>
    /\ total_count = <<>>
    /\ correct_count = <<>>
    /\ results = <<>>
    /\ final_accuracy = <<>>
    /\ progress_queue = 0
    /\ completed_models = 0
    /\ collected = {}
    /\ model_summaries = <<>>
    /\ all_detailed_results = <<>>
    /\ all_results = <<>>
    /\ saved = NotSaved
    /\ consistency = NoReport
    /\ requests_sent = <<>>
    /\ pc = "prepare"

\* no response under extraction, for the other specifications
ExIdle ==
    /\ test_cases = <<>>
    /\ extraction_result = <<>>

\* prepare_questions on its own: the benchmark object before run_comparison
PrepStart == PrepInit /\ DlIdle /\ ExIdle

PrepSpec == PrepStart /\ [][PrepNext]_vars

SparsePrepStart == SparsePrepInit /\ DlIdle /\ ExIdle

SparsePrepSpec == SparsePrepStart /\ [][PrepNext]_vars

\* the benchmark, with the downloader at rest
Init == BmInit /\ DlIdle /\ ExIdle

Next == BmNext

Spec == Init /\ [][Next]_vars

\* the benchmark when every thread that can take a step takes one, the
\* progress thread in particular
FairSpec == Spec /\ WF_vars(Next) /\ WF_vars(ProgressUpdate)

\* the downloader, with the benchmark at rest
DlStart == DlInit /\ BmIdle /\ ExIdle

DlSpec == DlStart /\ [][DlNext]_vars

\* the downloader on a steady source, with the benchmark at rest
SteadyStart == SteadyInit /\ BmIdle /\ ExIdle

\* the steps a run on a steady source can take
SteadyNext ==
    \/ StartDownload
    \/ LoopTest
    \/ BatchSuccess
    \/ BatchTokenEmpty
    \/ BatchNoResults
    \/ ReturnQuestions
    \/ CreateFinalCsv
    \/ DlInterrupt

SteadySpec == SteadyStart /\ [][SteadyNext]_vars

\* extract_letter_choice on every pair of responses, the rest at rest
ExtStart == ExtInit /\ DlIdle /\ BmIdle

ExtSpec == ExtStart /\ [][ExtNext]_vars

\* extract_letter_choice on every response without a marker
PlainStart == PlainInit /\ DlIdle /\ BmIdle

PlainSpec == PlainStart /\ [][ExtNext]_vars

\* the downloader under the only scheduling guarantee of a sequential
\* program: it takes its next step
FairDlSpec == DlSpec /\ WF_vars(DlNext)

(***************************************************************************)
(* The properties.                                                         *)
(***************************************************************************)
Records(m) == { results[m][i] : i \in 1..Len(results[m]) }

AllRecords == UNION { Records(m) : m \in Names }

\* C1: in one run, the records of any two models for the same question carry
\* the same correct_letter, the one of the prepared question, whatever the
\* interleaving of the workers; the same holds of the collected records.
C1_SameCorrectLetter ==
    /\ \A r \in AllRecords :
         /\ r.question_num \in 1..Len(prepared_questions)
         /\ r.correct_letter = prepared_questions[r.question_num].correct_letter
    /\ \A r1 \in AllRecords, r2 \in AllRecords :
         r1.question_num = r2.question_num => r1.correct_letter = r2.correct_letter
    /\ \A i \in 1..Len(all_detailed_results), j \in 1..Len(all_detailed_results) :
         all_detailed_results[i].question_num = all_detailed_results[j].question_num
           => all_detailed_results[i].correct_letter = all_detailed_results[j].correct_letter

\* two workers run side by side and both have answered the second question
C1_Witness ==
    /\ Cardinality(Running) = 2
    /\ \A m \in Names : Len(results[m]) = 2

\* C2: a worker takes the prepared questions in index order and appends one
\* record per question, numbered with the question's index; a failed request
\* or a failed extraction leaves it running, and a worker that finishes has
\* one record for every prepared question.
C2_State ==
    \A m \in Names :
      /\ \A i \in 1..Len(results[m]) :
           /\ results[m][i].question_num = i
           /\ results[m][i].question_num = prepared_questions[i].index
           /\ results[m][i].question = prepared_questions[i].question
      /\ w_pc[m] = "running" => Len(results[m]) = total_count[m]
      /\ w_pc[m] = "returned" => Len(results[m]) = Len(prepared_questions)

C2_Step ==
    \A m \in Names :
      /\ Len(results'[m]) \in {Len(results[m]), Len(results[m]) + 1}
      /\ SubSeq(results'[m], 1, Len(results[m])) = results[m]
      /\ (Len(results'[m]) = Len(results[m]) + 1
            /\ results'[m][Len(results'[m])].ai_letter \in {"ERROR", "NONE"})
           => w_pc'[m] = "running"

C2_OneRecordPerQuestion == []C2_State /\ [][C2_Step]_vars

\* a worker has finished both questions although the request failed on the first
C2_Witness ==
    \E m \in Names :
      /\ w_pc[m] = "returned"
      /\ Len(results[m]) = 2
      /\ results[m][1].ai_letter = "ERROR"
      /\ results[m][2].ai_letter = "NONE"

Summaries == { model_summaries[i] : i \in 1..Len(model_summaries) }

\* C3 as stated: the reported accuracy is the fraction correct_count/total_count
C3_AccuracyIsRatio ==
    \A sm \in Summaries :
      w_pc[sm.model] = "returned"
        => sm.accuracy[1] * sm.total = sm.correct * sm.accuracy[2]

\* C3 (amended): for a worker that has processed all N questions the reported
\* accuracy is the percentage 100 * correct_count / total_count, where
\* total_count = N counts the NONE and ERROR records too and correct_count is
\* the number of the model's records with is_correct true.
C3_AccuracyIsPercentage ==
    /\ \A m \in Names :
         w_pc[m] = "returned" =>
           /\ total_count[m] = Len(prepared_questions)
           /\ correct_count[m] = NumCorrect(results[m])
           /\ final_accuracy[m][1] * total_count[m]
                = 100 * correct_count[m] * final_accuracy[m][2]
    /\ \A sm \in Summaries :
         w_pc[sm.model] = "returned" =>
           /\ sm.total = Len(prepared_questions)
           /\ sm.correct = NumCorrect(results[sm.model])
           /\ sm.accuracy[1] * sm.total = 100 * sm.correct * sm.accuracy[2]

\* a summary of two questions, one answered correctly and one without a letter
C3_Witness ==
    \E sm \in Summaries :
      /\ sm.total = 2 /\ sm.correct = 1
      /\ \E r \in Records(sm.model) : r.ai_letter = "NONE"

\* C4: the accumulated list holds exactly one entry for every distinct
\* (unescaped question, unescaped answer) pair of the results processed so far.
C4_OneEntryPerPair ==
    /\ Len(all_questions) = Cardinality(seen_pairs)
    /\ \A pr \in seen_pairs :
         Cardinality({ i \in 1..Len(all_questions) : pair_of(all_questions[i]) = pr }) = 1

\* C5: the fetch loop terminates whatever the source answers.
C5_LoopTerminates == <>(dl_pc \in {"done", "interrupted"})

\* C6 as stated: the loop stops only with the target reached or the counter above 15
C6_ExitAboveTolerance ==
    dl_pc = "done" => (LenAll >= total_target \/ consecutive_empty > EmptyTolerance)

C6_State ==
    /\ consecutive_empty <= EmptyTolerance
    /\ dl_pc = "done" => (LenAll >= total_target \/ consecutive_empty = EmptyTolerance)

C6_Step ==
    dl_pc = "loop" =>
      IF LenAll < total_target /\ consecutive_empty < EmptyTolerance
      THEN dl_pc' = "body"
      ELSE dl_pc' = "done"

\* C6 (amended): the loop stops only when the accumulated count has reached the
\* target or the consecutive-empty counter has reached the tolerance 15: while
\* the count is below the target and the counter is below 15 the loop issues
\* another batch request, and at loop exit count >= target or counter = 15.
C6_ExitAtTolerance == []C6_State /\ [][C6_Step]_vars

\* the loop has stopped short of the target with the counter at 15
C6_Witness ==
    dl_pc = "done" /\ LenAll < total_target /\ LenAll > 0
      /\ consecutive_empty = EmptyTolerance

Cooldown(count) == IF count >= MAX_DANGER THEN SlowPause ELSE FastPause

C7_Step ==
    (dl_pc = "body" /\ dl_pc' = "loop" /\ status' = "rate_limit")
      => /\ consecutive_empty' = consecutive_empty + 1
         /\ slept' >= Cooldown(current_count)

C7_State ==
    (dl_pc = "body" /\ status = "rate_limit") => slept >= Cooldown(current_count)

\* C7: a rate-limited answer adds one to the consecutive-empty counter, and
\* when the loop comes to its next batch request at least the cooldown (30 s
\* below the danger threshold, 60 s from it on) has been slept since the answer.
C7_RateLimitCooldown == []C7_State /\ [][C7_Step]_vars

\* the next request after a rate-limited answer in cautious mode
C7_Witness ==
    /\ dl_pc = "body" /\ status = "rate_limit"
    /\ current_count >= MAX_DANGER
    /\ consecutive_empty > 0

\* C8: after an interruption the results accumulated so far are in the output file.
C8_PartialResultsWritten ==
    (dl_pc = "interrupted" /\ LenAll > 0)
      => (csv_file.written /\ csv_file.named = all_questions /\ csv_file.fresh = fresh)

SummaryOf(m) == { sm \in Summaries : sm.model = m }

DetailsOf(m) == SelectSeq(all_detailed_results, LAMBDA r : r.model = m)

C10_PrepareDeterministic ==
    prepare_calls.n >= 2 =>
      /\ Len(prepared_questions) = Len(prev_prepared)
      /\ \A i \in 1..Len(prepared_questions) :
           /\ prepared_questions[i].shuffled_answers = prev_prepared[i].shuffled_answers
           /\ prepared_questions[i].correct_letter = prev_prepared[i].correct_letter

\* two calls entered with the generator in different states, two questions kept
C10_Witness ==
    /\ prepare_calls.n = 2
    /\ prepare_calls.differed
    /\ Len(prepared_questions) = 2

TotalsDiffer == \E s1 \in Summaries, s2 \in Summaries : s1.total # s2.total

LettersDiffer ==
    \E i \in 1..Len(all_detailed_results), j \in 1..Len(all_detailed_results) :
      /\ all_detailed_results[i].question_num = all_detailed_results[j].question_num
      /\ all_detailed_results[i].correct_letter # all_detailed_results[j].correct_letter

\* C11: once run_comparison has shown its final report, the cross-check has
\* reported a discrepancy if two model summaries have different totals, and if
\* two records of one question index carry different correct_letter values;
\* it has reported the run as consistent only when neither is the case.
C11_CrossCheckReports ==
    pc \in {"returned", "saved"} =>
      /\ TotalsDiffer => consistency.counts = "differ"
      /\ LettersDiffer => consistency.letters = "differ"
      /\ consistency.counts = "ok" => ~TotalsDiffer
      /\ consistency.letters = "ok" => ~LettersDiffer

C12_State ==
    /\ pc \notin {"init", "prepare", "idle"} => Cardinality(Running) <= max_workers
    /\ pc # "crashed"

C12_Step ==
    (pc = "init" /\ max_workers = NoArg) => max_workers' = Min(Len(models), 4)

\* C12: the number of workers that have started and not finished never
\* exceeds max_workers, which is min(number of models, 4) when the caller
\* gives none, and run_comparison does not fail for any model selection the
\* caller can make, the empty one included.
C12_BoundedPool == []C12_State /\ [][C12_Step]_vars

C13_State ==
    \A m \in Names :
      /\ m \notin collected => DetailsOf(m) = <<>> /\ m \notin DOMAIN all_results
      /\ DetailsOf(m) # <<>> =>
           /\ DetailsOf(m) = results[m]
           /\ Len(results[m]) = Len(prepared_questions)
           /\ w_pc[m] = "returned"

C13_Step ==
    /\ \A m \in Names :
         results'[m] # results[m] =>
           /\ w_pc[m] = "running"
           /\ \A o \in Names \ {m} : results'[o] = results[o]
           /\ UNCHANGED <<all_detailed_results, all_results>>
    /\ (all_detailed_results' # all_detailed_results \/ all_results' # all_results) =>
         \E m \in Names \ collected :
           /\ w_pc[m] = "returned"
           /\ Len(results[m]) = Len(prepared_questions)
           /\ collected' = collected \cup {m}
           /\ all_detailed_results' = all_detailed_results \o results[m]
           /\ DOMAIN all_results' = DOMAIN all_results \cup {m}
           /\ all_results'[m] = results[m]
           /\ UNCHANGED <<results, w_pc>>

\* C13: a worker's records are in a list only that worker appends to; they
\* enter all_detailed_results and all_results in one step of the collecting
\* loop, all N together and only after the worker has returned, and a step
\* that writes the shared results is a step of that loop alone.
C13_MergedOnCompletion == []C13_State /\ [][C13_Step]_vars

\* one model's records are merged while the other worker is half-way
C13_Witness ==
    \E m1 \in Names, m2 \in Names :
      /\ m1 \in collected /\ Len(DetailsOf(m1)) = 2
      /\ w_pc[m2] = "running" /\ Len(results[m2]) = 1

FailureTexts == { <<"TIMEOUT">>, <<"HTTP">>, <<"ERROR">> }

C14_State ==
    \A m \in Names :
      /\ requests_sent[m] = Len(results[m])
      /\ \A r \in Records(m) :
           /\ r.ai_response \in FailureTexts <=> r.ai_letter = "ERROR"
           /\ r.ai_letter = "ERROR" => ~r.is_correct
           /\ r.ai_letter = "NONE" => r.ai_response \notin FailureTexts

C14_Step ==
    \A m \in Names :
      /\ requests_sent'[m] \in {requests_sent[m], requests_sent[m] + 1}
      /\ requests_sent'[m] = requests_sent[m] + 1 <=> Len(results'[m]) = Len(results[m]) + 1

\* C14: the worker sends exactly one request per question; a timeout, a
\* non-200 status or a transport error is not retried and gives the
\* question's record the letter ERROR, not NONE, with is_correct false.
C14_OneRequestPerQuestion == []C14_State /\ [][C14_Step]_vars

\* a worker has finished two questions, one timed out and one answered HTTP 500
C14_Witness ==
    \E m \in Names :
      /\ w_pc[m] = "returned"
      /\ requests_sent[m] = 2
      /\ results[m][1].ai_response = <<"TIMEOUT">>
      /\ results[m][2].ai_response = <<"HTTP">>

Sent(log) == { log[i] : i \in 1..Len(log) }

C15_Step ==
    /\ \A i \in 1..Len(request_log') :
         /\ request_log'[i].delay = get_adaptive_delay(LenAll)
         /\ \/ request_log'[i].gap >= request_log'[i].delay
            \/ /\ request_log'[i].gap = NoTime
               /\ i = 1
               /\ dl_pc = "start"
    /\ dl_pc # "start" => \A e \in Sent(request_log') : e.gap # NoTime

\* C15: every request the fetcher sends (batch, token request, token reset)
\* starts at least the adaptive delay (5.2 s with fewer than 4520 questions
\* accumulated, 8.0 s otherwise) after the start of the request before it;
\* only the first request of the run, the initial token request, has no
\* request before it.
C15_RequestSpacing == [][C15_Step]_vars

\* an iteration in cautious mode that sent a batch request, a token reset and
\* a token request, the batch request 8.0 s after the request before it
C15_Witness ==
    /\ Len(request_log) = 3
    /\ request_log[1].url = "batch" /\ request_log[1].gap = SlowDelay
    /\ request_log[2].url = "reset" /\ request_log[2].gap = SlowDelay
    /\ request_log[3].url = "token"

C16_Step ==
    (dl_pc = "body" /\ dl_pc' # "interrupted") =>
      /\ Len(request_log') >= 1
      /\ request_log'[1].url = "batch"
      /\ requested' = IF LenAll < MAX_DANGER THEN FastBatch ELSE SlowBatch
      /\ request_log'[1].delay = IF LenAll < MAX_DANGER THEN FastDelay ELSE SlowDelay
      /\ request_log'[1].gap >= request_log'[1].delay

C16_State ==
    /\ requested \in {0, FastBatch, SlowBatch}
    /\ LenAll < MAX_DANGER => requested \in {0, FastBatch}

\* C16: every batch request asks for 50 questions and is paced by 5.2 s when
\* the accumulated count at the time of the request is below 4520, and asks
\* for 10 questions paced by 8.0 s when the count is 4520 or more; it never
\* asks for more than the batch size of the mode the count puts it in.
C16_ModeByCount == []C16_State /\ [][C16_Step]_vars

\* a batch request of 10 questions sent in cautious mode
C16_Witness ==
    /\ Len(request_log) >= 1
    /\ request_log[1].url = "batch" /\ request_log[1].delay = SlowDelay
    /\ requested = SlowBatch
    /\ current_count >= MAX_DANGER

\* C17 as stated: a response classified as success, with results, resets the
\* counter to 0
C17_SuccessResets ==
    [][(dl_pc = "body" /\ status' = "success" /\ received' > 0 /\ dl_pc' = "loop")
         => consecutive_empty' = 0]_vars

KeyOfPair(pr) == pr[1] \o <<"|">> \o pr[2]

C17_Step ==
    (dl_pc = "body" /\ status' = "success" /\ dl_pc' = "loop") =>
      /\ unique_questions \subseteq unique_questions'
      /\ SubSeq(all_questions', 1, Len(all_questions)) = all_questions
      /\ Len(all_questions') - Len(all_questions)
           = Cardinality(unique_questions' \ unique_questions)
      /\ \A pr \in seen_pairs' : KeyOfPair(pr) \in unique_questions'
      /\ fresh' >= fresh
      /\ LenAll' - LenAll <= received'
      /\ consecutive_empty' = IF LenAll' > LenAll THEN 0 ELSE consecutive_empty + 1

\* C17 (amended): when a batch request is classified as success, the results
\* of the batch whose question|answer key is not yet accumulated are appended
\* to the accumulated list and their keys to the key set; the
\* consecutive-empty counter is reset to 0 if at least one result was
\* appended and increases by one otherwise.
C17_SuccessMerges == [][C17_Step]_vars

\* a successful batch of results that were all accumulated already
C17_Witness ==
    /\ dl_pc = "loop" /\ status = "success"
    /\ received > 0
    /\ consecutive_empty > 0
    /\ Len(all_questions) > 0

(***************************************************************************)
(* C18: a token-exhausted response.                                        *)
(***************************************************************************)
Urls(log) == [i \in 1..Len(log) |-> log[i].url]

\* C18: on a token-exhausted response the fetcher first resets the current
\* token, and if there is none or the reset fails it discards the token and
\* requests a fresh one; if either succeeds the counter is 0 and the loop
\* retries with the same batch number and no maintenance pause; if both fail
\* the counter increases by one; the accumulated questions never change
C18_Step ==
    (dl_pc = "body" /\ status' = "token_empty" /\ dl_pc' = "loop") =>
        LET urls == Urls(request_log')
            reset_ok == urls = <<"batch", "reset">>
            fresh_ok == /\ urls \in { <<"batch", "token">>, <<"batch", "reset", "token">> }
                        /\ session_token' # None
            both_fail == /\ urls \in { <<"batch", "token">>, <<"batch", "reset", "token">> }
                         /\ session_token' = None
        IN  /\ reset_ok \/ fresh_ok \/ both_fail
            /\ (Len(urls) > 1 /\ urls[2] = "reset") <=> session_token # None
            /\ reset_ok => session_token' = session_token
            /\ (reset_ok \/ fresh_ok) =>
                  /\ consecutive_empty' = 0
                  /\ batch_number' = batch_number
                  /\ slept' < FastPause
            /\ both_fail =>
                  /\ consecutive_empty' = consecutive_empty + 1
                  /\ batch_number' = (batch_number + 1) % MaintenanceCycle
            /\ UNCHANGED <<all_questions, unique_questions, fresh>>

C18_TokenRecovery == [][C18_Step]_vars

\* a failed reset followed by a fresh token, after some empty iterations and
\* with questions accumulated
C18_Witness ==
    /\ dl_pc = "loop" /\ status = "token_empty"
    /\ Urls(request_log) = <<"batch", "reset", "token">>
    /\ session_token # None
    /\ consecutive_empty = 0
    /\ LenAll > 0

(***************************************************************************)
(* C19: the responses that bring nothing.                                  *)
(***************************************************************************)
EmptyStatuses == {"no_results", "rate_limit", "exception", "error_2", "http_500"}

\* C19: on a response classified as no-results, rate-limited or unclassified
\* error (unknown response_code, other HTTP status, transport exception, or
\* success with an empty result list) the consecutive-empty counter increases
\* by exactly 1 and the accumulated list and key set are unchanged
C19_Step ==
    (/\ dl_pc = "body" /\ dl_pc' = "loop"
     /\ \/ status' \in EmptyStatuses
        \/ status' = "success" /\ received' = 0) =>
        /\ consecutive_empty' = consecutive_empty + 1
        /\ UNCHANGED <<all_questions, unique_questions, fresh>>

C19_EmptyResponseCounts == [][C19_Step]_vars

\* two responses that brought nothing, the last one a success with an empty
\* list, after questions were accumulated
C19_Witness ==
    /\ dl_pc = "loop" /\ status = "success" /\ received = 0
    /\ consecutive_empty = 2
    /\ LenAll > 0

(***************************************************************************)
(* C20: the text after the last reasoning marker.                          *)
(***************************************************************************)
HasThink(text) == \E i \in 1..Len(text) : text[i] = "</think>"

\* the text after the last "</think>" of a response that has one
AfterLastThink(text) ==
    SubSeq(text, LastOf({ i \in 1..Len(text) : text[i] = "</think>" }) + 1, Len(text))

\* C20: two responses that contain the marker "</think>" and have the same
\* text after its last occurrence yield the same result, whatever stands
\* before the marker
C20_SuffixDecides ==
    (/\ Len(extraction_result) = 2
     /\ HasThink(test_cases[1]) /\ HasThink(test_cases[2])
     /\ AfterLastThink(test_cases[1]) = AfterLastThink(test_cases[2])) =>
        extraction_result[1] = extraction_result[2]

(***************************************************************************)
(* C21: the order of the heuristics on a response without a marker.        *)
(***************************************************************************)
\* heuristic 2: the last line that is exactly one option letter
LastLetterLine(text) ==
    LET ls == split_lines(strip(text), 1, <<>>)
        found == { i \in 1..Len(ls) : Len(ls[i]) = 1 /\ IsLetter(ls[i][1]) }
    IN  IF found = {} THEN NoLetter ELSE upper(ls[LastOf(found)][1])

\* heuristic 3: the last match of the first pattern, in list order, that matches
LastPatternMatch(text) ==
    LET w == words(strip(text))
        first == { n \in 1..5 : answer_pattern(n, w) # {}
                                 /\ \A k \in 1..(n - 1) : answer_pattern(k, w) = {} }
    IN  IF first = {} THEN NoLetter
        ELSE LET n == CHOOSE n \in first : TRUE
             IN  upper(w[LastOf(answer_pattern(n, w))])

\* heuristic 4: the last standalone letter token
LastStandalone(text) ==
    IF standalone(text) = {} THEN NoLetter ELSE upper(text[LastOf(standalone(text))])

\* heuristic 5: the last match of a broader pattern
LastBroader(text) ==
    IF broader(words(text)) = {} THEN NoLetter
    ELSE glued_letter(words(text)[LastOf(broader(words(text)))])

FirstMatch(text) ==
    IF LastLetterLine(text) # NoLetter THEN LastLetterLine(text)
    ELSE IF LastPatternMatch(text) # NoLetter THEN LastPatternMatch(text)
    ELSE IF LastStandalone(text) # NoLetter THEN LastStandalone(text)
    ELSE LastBroader(text)

\* C21: for a response without "</think>" the result is that of the first
\* heuristic, in the order 2, 3, 4, 5, that matches, and no answer if none
\* does; it is always one of A, B, C, D or the no-answer value
C21_FirstHeuristicDecides ==
    \A i \in 1..Len(extraction_result) :
        ~HasThink(test_cases[i]) =>
            /\ extraction_result[i] = FirstMatch(test_cases[i])
            /\ extraction_result[i] \in {"A", "B", "C", "D", NoLetter}

\* a response in which a pattern matched one letter and the last standalone
\* letter is another one
C21_Witness ==
    /\ Len(extraction_result) = 1
    /\ ~HasThink(test_cases[1])
    /\ LastLetterLine(test_cases[1]) = NoLetter
    /\ LastPatternMatch(test_cases[1]) = "B"
    /\ LastStandalone(test_cases[1]) = "C"
    /\ extraction_result[1] = "B"

(***************************************************************************)
(* C22: the rows prepare_questions keeps, and their numbers.               *)
(***************************************************************************)
\* a row with at least 2 incorrect answers that are present and not blank
HasTwoUsable(row) ==
    Cardinality({ j \in 1..Len(row.incorrect) :
                    row.incorrect[j] # NaN /\ row.incorrect[j] # " " }) >= 2

\* the rows the loop of prepare_questions goes through
LoopRows == head(df, max_questions)

\* C22: prepare_questions keeps exactly the rows with at least 2 usable
\* incorrect answers, in row order, numbered 1..N without gaps, and the
\* question_num of every worker's record is the index of its prepared question
C22_KeptRowsNumbered ==
    prepare_calls.n > 0 =>
        LET kept == SelectSeq(LoopRows, HasTwoUsable)
        IN  /\ Len(prepared_questions) = Len(kept)
            /\ \A k \in 1..Len(prepared_questions) :
                 /\ prepared_questions[k].index = k
                 /\ prepared_questions[k].question = kept[k].question
                 /\ prepared_questions[k].correct_answer = kept[k].correct_answer
            /\ \A r \in AllRecords \cup { all_detailed_results[i] :
                                            i \in 1..Len(all_detailed_results) } :
                 /\ r.question_num \in 1..Len(prepared_questions)
                 /\ prepared_questions[r.question_num].index = r.question_num
                 /\ prepared_questions[r.question_num].question = r.question

\* a row was dropped between two kept ones and a worker answered the question
\* prepared from the row after it
C22_Witness ==
    /\ Len(df) = 3 /\ Len(prepared_questions) = 2
    /\ ~HasTwoUsable(df[2])
    /\ \E r \in AllRecords : r.question_num = 2 /\ r.question = df[3].question

(***************************************************************************)
(* C23: the lettered options of a prepared question.                       *)
(***************************************************************************)
SameElements(a, b) ==
    /\ Len(a) = Len(b)
    /\ \A x \in { a[i] : i \in 1..Len(a) } :
         Cardinality({ i \in 1..Len(a) : a[i] = x })
           = Cardinality({ i \in 1..Len(b) : b[i] = x })

\* C23: the options of every prepared question are a permutation of its
\* correct answer and its usable incorrect answers, 3 or 4 of them, and
\* correct_letter is defined and is the one letter that holds the correct answer
C23_CorrectLetterDefined ==
    prepare_calls.n > 0 =>
        LET kept == SelectSeq(LoopRows, HasTwoUsable)
        IN  \A k \in 1..Len(prepared_questions) :
              LET q == prepared_questions[k]
                  expected == <<kept[k].correct_answer>>
                                \o SelectSeq(kept[k].incorrect,
                                             LAMBDA c : c # NaN /\ c # " ")
              IN  /\ Len(q.shuffled_answers) \in {3, 4}
                  /\ SameElements(q.shuffled_answers, expected)
                  /\ q.correct_letter \in { Letters[i] : i \in 1..Len(q.shuffled_answers) }
                  /\ \A i \in 1..Len(q.shuffled_answers) :
                       (Letters[i] = q.correct_letter)
                         <=> (q.shuffled_answers[i] = q.correct_answer)

(***************************************************************************)
(* C24: when a record is marked correct.                                   *)
(***************************************************************************)
RequestSucceeded(r) == r.ai_response \notin FailureTexts

\* C24: a record is marked correct iff its request succeeded, a letter of
\* A..D was extracted and that letter is the question's correct_letter
C24_State ==
    \A r \in AllRecords :
        r.is_correct <=> /\ RequestSucceeded(r)
                         /\ r.ai_letter \in {"A", "B", "C", "D"}
                         /\ r.ai_letter = r.correct_letter

\* C24: a record with the NONE or ERROR sentinel is not counted as correct and
\* leaves its worker running
C24_Step ==
    \A m \in Names :
        (Len(results'[m]) = Len(results[m]) + 1
           /\ results'[m][Len(results'[m])].ai_letter \in {"NONE", "ERROR"}) =>
            /\ ~results'[m][Len(results'[m])].is_correct
            /\ correct_count'[m] = correct_count[m]
            /\ w_pc'[m] = "running"

C24_CorrectIffLetterMatches == []C24_State /\ [][C24_Step]_vars

\* one worker has written an ERROR record, then a NONE record, another has a
\* correct record
C24_Witness ==
    \E m \in Names, o \in Names :
        /\ Len(results[m]) = 2
        /\ results[m][1].ai_letter = "ERROR"
        /\ results[m][2].ai_letter = "NONE"
        /\ w_pc[m] = "running"
        /\ \E r \in Records(o) : r.is_correct

(***************************************************************************)
(* C25: the maintenance pause.                                             *)
(***************************************************************************)
\* an iteration that reached lines 219-226
Counted == dl_pc = "body" /\ dl_pc' = "loop" /\ status' \in {"success", "no_results"}

\* what the iteration slept after its response if its interval and pause are
\* those of the mode a count of n questions is in
MaintenanceSleep(n, batch) ==
    LET N == IF n >= MAX_DANGER THEN SlowMaintenance ELSE FastMaintenance
        pause == IF n >= MAX_DANGER THEN SlowPause ELSE FastPause
    IN  IF batch % N = 0 THEN pause ELSE 0

\* C25 as stated: the batch number advances and the pause is taken exactly when
\* it is a multiple of the interval of the accumulated count, with the pause
\* of that mode
C25_PauseByAccumulatedCount ==
    [][Counted => /\ batch_number' = (batch_number + 1) % MaintenanceCycle
                  /\ slept' = MaintenanceSleep(LenAll', batch_number')]_vars

\* an iteration answered 'token_empty'; it is retried if a token was obtained
TokenIteration == dl_pc = "body" /\ dl_pc' = "loop" /\ status' = "token_empty"

\* C25: the batch number advances and the pause is taken exactly when it is a
\* multiple of the interval of the count the iteration started with, with the
\* pause of that mode; an iteration retried after a token recovery neither
\* advances the batch number nor pauses
C25_Step ==
    /\ Counted =>
          /\ batch_number' = (batch_number + 1) % MaintenanceCycle
          /\ current_count' = LenAll
          /\ slept' = MaintenanceSleep(current_count', batch_number')
    /\ (TokenIteration /\ session_token' # None) =>
          /\ batch_number' = batch_number
          /\ slept' < FastPause
    /\ (TokenIteration /\ session_token' = None) =>
          /\ batch_number' = (batch_number + 1) % MaintenanceCycle
          /\ (slept' >= FastPause)
                <=> (MaintenanceSleep(current_count', batch_number') > 0)

C25_PauseByIterationCount == [][C25_Step]_vars

\* in cautious mode the pause of 60 s at a batch number that is a multiple of
\* 50 and not of 100
C25_Witness ==
    /\ dl_pc = "loop"
    /\ batch_number = SlowMaintenance
    /\ current_count >= MAX_DANGER
    /\ slept = SlowPause

(***************************************************************************)
(* C26: the accumulated count and the target.                              *)
(***************************************************************************)
Returned == Len(run_questions.named) + run_questions.fresh

\* C26 as stated: the accumulated list, and the list returned, never hold more
\* than total_target questions
C26_NeverAboveTarget ==
    /\ LenAll <= total_target
    /\ run_questions.bound => Returned <= total_target

C26_State ==
    /\ dl_pc = "body" => LenAll < total_target
    /\ LenAll < total_target + SlowBatch
    /\ run_questions.bound => Returned < total_target + SlowBatch

C26_Step ==
    LenAll' <= LenAll + (IF dl_pc = "body" /\ status' = "success" THEN requested' ELSE 0)

\* C26: an iteration starts only below the target and adds at most the amount
\* it requested, so the accumulated list and the list returned hold fewer than
\* total_target + 10 questions
C26_BelowTargetPlusBatch == []C26_State /\ [][C26_Step]_vars

\* the list returned holds more than the target
C26_Witness ==
    /\ run_questions.bound
    /\ Returned > total_target
    /\ Returned = LenAll

(***************************************************************************)
(* C27: the cap on the number of questions.                                *)
(***************************************************************************)
\* C27: when a cap max_questions >= 0 is given, prepare_questions prepares at
\* most max_questions questions
C27_CapRespected ==
    (prepare_calls.n > 0 /\ max_questions # NoCap /\ max_questions >= 0) =>
        Len(prepared_questions) <= max_questions

(***************************************************************************)
(* C28: the summaries run_comparison returns.                              *)
(***************************************************************************)
EntriesOf(m) == { i \in 1..Len(model_summaries) : model_summaries[i].model = m }

\* C28: when run_comparison has returned, model_summaries has exactly one
\* entry for each model submitted, whatever the order of completion and
\* whether the worker returned or raised, and the entry of a worker that
\* returned has total equal to the number of prepared questions
C28_OneSummaryPerModel ==
    pc \in {"returned", "saved"} =>
        /\ Len(model_summaries) = Len(models)
        /\ \A m \in Names :
             /\ w_pc[m] \in {"returned", "raised"}
             /\ Cardinality(EntriesOf(m)) = 1
             /\ w_pc[m] = "returned" =>
                  \A i \in EntriesOf(m) :
                      model_summaries[i].total = Len(prepared_questions)

\* run_comparison has returned; the worker submitted last raised and was
\* collected first, the other one answered every question
C28_Witness ==
    /\ pc = "returned"
    /\ Len(models) = 2 /\ Len(model_summaries) = 2
    /\ model_summaries[1].model = models[2]
    /\ w_pc[models[2]] = "raised"
    /\ w_pc[models[1]] = "returned"
    /\ model_summaries[2].total = Len(prepared_questions)
    /\ Len(prepared_questions) = 2

(***************************************************************************)
(* C29: the progress thread.                                               *)
(***************************************************************************)
AllWorkersFinished == \A m \in Names : w_pc[m] \in {"returned", "raised"}

\* C29: once every worker has finished, by returning or by raising, the
\* progress thread eventually counts completed_models = total_models (unless
\* the run is interrupted), and it never counts more than there are models
C29_ProgressCompletes ==
    /\ [](completed_models <= Len(models))
    /\ (AllWorkersFinished /\ pc # "interrupted")
          ~> (completed_models = Len(models) \/ pc = "interrupted")

====
